---- MODULE Spec2Model ----
(***************************************************************************)
(* Model of the Redmine attachment tools: the REST client with its retry   *)
(* loops (src/src/redmine_client.py), the pagination loops of the download *)
(* and delete scripts (src/scripts/donwload_attachments.py,                *)
(* src/scripts/delete_attachments.py) and the browser delete loop          *)
(* (src/src/redmine_browser_client.py).                                    *)
(*                                                                         *)
(* One thread of control: pc is the position in the code, the call chain   *)
(* is script -> get_issues -> _make_request, script -> download_attachments*)
(* -> RedmineAttachment.download, and delete_attachments_from_issue.       *)
(* Durations are in whole units; only their order and equality matter.     *)
(***************************************************************************)
EXTENDS Integers, Sequences, FiniteSets

\* ---------------------------------------------------------------- bounds
MaxLimit == 2
MaxOffsetStart == 1
MaxOffsetEnd == 3
MaxRequests == 3
MaxPage == 2
MaxAttachments == 2
MaxRetry == 2
MaxScriptRetry == 1
MaxBaseTimeout == 2
MaxTimeoutIncrement == 2
MaxInterval == 2
MaxIds == 2
MaxIssueId == 2
MaxEarlier == 2
MaxNameLen == 4

VARIABLES
    entry,                  \* the operation the run started with
    env,                    \* REDMINE_RETRY_COUNT, _RETRY_INTERVAL, _BASE_TIMEOUT, _TIMEOUT_INCREMENT
    config,                 \* the script's config dict (setup_environment)
    pc,                     \* position in the code
    attempt,                \* loop variable of the running retry loop
    trace,                  \* attempts and sleeps of the running retried operation, in order
    mr_result,              \* _make_request: "none", "returned" or "raised"
    mr_error,               \* the exception _make_request raised ("none" if none)
    gi_result,              \* get_issues: "none", "returned" or "raised"
    issues,                 \* the RedmineIssueList get_issues returned
    current_offset,
    batch_count,
    requests,               \* the get_issues calls made so far: [offset, limit]
    responses,              \* of every get_issues call that ended: len(issues), and
                            \* whether _make_request had raised
    seen,                   \* tickets with attachments of every page received
    issues_with_attachments,
    total_attachments,
    downloaded_attachments,
    stop,                   \* why the while loop was left ("none" while it runs)
    raised,                 \* an exception left the script's function
    ticket,                 \* index in issues of the ticket being processed
    att,                    \* index of the attachment of that ticket being processed
    call,                   \* arguments of the running RedmineAttachment.download call
    retry_count,            \* local of RedmineAttachment.download
    retry_interval,         \* local of RedmineAttachment.download
    dl_result,              \* RedmineAttachment.download: "none", "true", "false" or "raised"
    file,                   \* the download target: "absent", "partial" or "complete"
    browser,                \* RedmineBrowserClient: retry_count, retry_interval, delete_interval
    attachments_section,    \* the .attachments section of the ticket page: "unknown",
                            \* "absent" or "present"
    attachment_count,       \* delete controls found at page load
    remaining,              \* delete controls on the page now
    clicked,                \* the clicks of the call: [iteration, target]
    i,                      \* loop variable over the attachments of the ticket page
    failed_attachments,
    del_result,             \* delete_attachments_from_issue: "none", "true" or "false"
    self_page,              \* self.page: "none" until _setup_browser made it, then "ready"
    header,                 \* the page sends the Authorization header
    login_result,           \* login: "none", "true" or "false"
    issue_ids,              \* argument of delete_attachments_from_issues
    batch_i,                \* position of its loop in issue_ids
    issue_id,               \* argument of the running delete_attachments_from_issue
    results,                \* its dict, as the set of its items
    all_failed_attachments, \* its list of that name
    manual_log,             \* the [MANUAL_DELETE_REQUIRED] lines logged so far
    visits,                 \* ticket pages page.goto was called for, in order
    deletions,              \* the deletions attempted: [issue_id, attachment_index, confirmed]
    steps,                  \* what the browser client did, in order: tickets, attachments, pauses
    returned,               \* what the calls of the batch returned, in order
    answer,                 \* the confirmation: "none", "skipped", "yes", "no" or "interrupt"
    exit_code,              \* of the process: "none" while it runs, "0", "1" if not 0
    exit_cause,             \* how main was left: "none", "return", "KeyboardInterrupt"
                            \* or "Exception" (its two except clauses)
    dir,                    \* the files of the directory download_attachments writes to
    earlier,                \* the files an earlier run left in such a directory
    safe_filename,          \* local of RedmineIssue.download_attachments
    download_path,          \* local of RedmineIssue.download_attachments
    filename,               \* argument of the running _sanitize_filename
    decoded_filename,       \* local of _sanitize_filename
    download_log            \* the log lines of download_attachments of the run:
                            \* [issue_id, attachment, result]

cfgVars == <<entry, env, config, browser>>
retryVars == <<attempt, trace>>
clientVars == <<mr_result, mr_error, gi_result, issues>>
driverVars == <<current_offset, batch_count, requests, responses, seen,
                issues_with_attachments, total_attachments,
                downloaded_attachments, stop, raised, ticket, att>>
downloadVars == <<call, retry_count, retry_interval, dl_result, file>>
browserVars == <<attachments_section, attachment_count, remaining, clicked, i,
                 failed_attachments, del_result>>
sessionVars == <<self_page, header, login_result, issue_ids, batch_i, issue_id, results,
                 all_failed_attachments, manual_log, visits, deletions, steps,
                 returned>>
mainVars == <<answer, exit_code, exit_cause>>
fsVars == <<dir, earlier, safe_filename, download_path, filename, decoded_filename,
           download_log>>
vars == <<cfgVars, pc, retryVars, clientVars, driverVars, downloadVars, browserVars,
          sessionVars, mainVars, fsVars>>

\* ------------------------------------------------------------- data types
Event(kind, n, value, outcome) ==
    [kind |-> kind, attempt |-> n, value |-> value, outcome |-> outcome]

NoEvent == Event("none", 0, 0, "-")

\* What one attempt of session.get / raise_for_status / response.json can do:
\* succeed, raise requests.exceptions.Timeout, raise another
\* requests.exceptions.RequestException, or raise an exception that is no
\* RequestException (a JSON ValueError of an older requests). A timeout that
\* is not positive is refused with a ValueError before anything is sent.
RequestOutcomes(timeout) ==
    IF timeout <= 0 THEN {"exception"}
    ELSE {"ok", "timeout", "request_exception", "exception"}

\* What one attempt of requests.get / raise_for_status / open / write can do;
\* "write_error" is an OSError of open() or f.write().
DownloadOutcomes(timeout) ==
    IF timeout <= 0 THEN {"exception"}
    ELSE {"ok", "timeout", "request_exception", "exception", "write_error"}

\* A ticket of a page: its id and the length of its attachments array.
Ticket(id, n) == [id |-> id, attachment_count |-> n]

\* The tickets of the server: ids count up in the order of the listing, and
\* the ticket with a given id holds id % (MaxAttachments + 1) attachments, so
\* tickets with none, one and several attachments follow one another.
AttachmentsOf(id) == id % (MaxAttachments + 1)

\* The pages a server can answer with: the next n tickets, for every n up to
\* MaxPage, whatever limit was asked for.
PageFrom(first, n) == [k \in 1..n |-> Ticket(first + k - 1, AttachmentsOf(first + k - 1))]

Pages(first) == {PageFrom(first, n) : n \in 0..MaxPage}

\* The number of tickets the server has handed out so far.
RECURSIVE SumSizes(_)
SumSizes(s) == IF s = <<>> THEN 0 ELSE Head(s).size + SumSizes(Tail(s))

\* ------------------------------------------------------- redmine_client.py
get_retry_settings == <<env.retry_count, env.retry_interval>>

get_timeout_settings == <<env.base_timeout, env.timeout_increment>>

\* current_timeout = base_timeout + (attempt * timeout_increment)
CurrentTimeoutBug(n) == get_timeout_settings[1] + get_timeout_settings[2]
CurrentTimeout(n) == get_timeout_settings[1] + (n * get_timeout_settings[2])

\* The except clauses of _make_request: Timeout and RequestException.
MakeRequestCaught == {"timeout", "request_exception"}

\* The except clauses of RedmineAttachment.download: Timeout and Exception.
DownloadCaughtBug == {"timeout", "request_exception"}
DownloadCaught == {"timeout", "request_exception", "exception", "write_error"}

\* Where control goes when get_issues returns.
AfterGetIssues == IF entry = "get_issues" THEN "done" ELSE "page_received"

\* One iteration of the for loop of _make_request: the request of this attempt
\* and the except clause it ends in.
MakeRequestAttempt ==
    /\ pc = "_make_request"
    /\ attempt <= get_retry_settings[1]
    /\ \E outcome \in RequestOutcomes(CurrentTimeout(attempt)) :
        /\ trace' = Append(trace, Event("attempt", attempt, CurrentTimeout(attempt), outcome))
        /\ IF outcome = "ok"
           THEN /\ mr_result' = "returned"
                /\ pc' = "get_issues"
                /\ UNCHANGED mr_error
           ELSE IF outcome \in MakeRequestCaught /\ attempt < get_retry_settings[1]
           THEN /\ pc' = "_make_request_sleep"
                /\ UNCHANGED <<mr_result, mr_error>>
           ELSE /\ mr_result' = "raised"
                /\ mr_error' = Event("attempt", attempt, CurrentTimeout(attempt), outcome)
                /\ pc' = "get_issues"
    /\ UNCHANGED <<sessionVars, mainVars, fsVars,
                   cfgVars, attempt, gi_result, issues, driverVars, downloadVars, browserVars>>

\* time.sleep(retry_interval) of an except clause, then the next iteration.
MakeRequestSleep ==
    /\ pc = "_make_request_sleep"
    /\ trace' = Append(trace, Event("sleep", attempt, get_retry_settings[2], "-"))
    /\ attempt' = attempt + 1
    /\ pc' = "_make_request"
    /\ UNCHANGED <<sessionVars, mainVars, fsVars,
                   cfgVars, clientVars, driverVars, downloadVars, browserVars>>

\* get_issues after _make_request returned: the list built from data["issues"].
GetIssuesReturn ==
    /\ pc = "get_issues"
    /\ mr_result = "returned"
    /\ \E page \in Pages(SumSizes(responses) + 1) :
        /\ issues' = page
        /\ responses' = Append(responses, [size |-> Len(page), failed |-> FALSE])
        /\ seen' = seen \o SelectSeq(page, LAMBDA t : t.attachment_count > 0)
    /\ gi_result' = "returned"
    /\ pc' = AfterGetIssues
    /\ UNCHANGED <<sessionVars, mainVars, fsVars,
                   cfgVars, retryVars, mr_result, mr_error, current_offset, batch_count,
                   requests, issues_with_attachments, total_attachments,
                   downloaded_attachments, stop, raised, ticket, att,
                   downloadVars, browserVars>>

\* get_issues after _make_request raised: except Exception returns RedmineIssueList([]).
GetIssuesExcept ==
    /\ pc = "get_issues"
    /\ mr_result = "raised"
    /\ issues' = <<>>
    /\ responses' = Append(responses, [size |-> 0, failed |-> TRUE])
    /\ gi_result' = "returned"
    /\ pc' = AfterGetIssues
    /\ UNCHANGED <<sessionVars, mainVars, fsVars,
                   cfgVars, retryVars, mr_result, mr_error, current_offset, batch_count,
                   requests, seen, issues_with_attachments, total_attachments,
                   downloaded_attachments, stop, raised, ticket, att,
                   downloadVars, browserVars>>


\* ------------------------------------------ RedmineIssue._sanitize_filename
\* A file name is the sequence of its characters, and a character is a
\* string: itself when it can be printed, its name when it is a control
\* character (or the grave accent). Ascii[c + 1] is the character with code c.
Ascii == <<
    "NUL", "SOH", "STX", "ETX", "EOT", "ENQ", "ACK", "BEL",
    "BS", "TAB", "LF", "VT", "FF", "CR", "SO", "SI",
    "DLE", "DC1", "DC2", "DC3", "DC4", "NAK", "SYN", "ETB",
    "CAN", "EM", "SUB", "ESC", "FS", "GS", "RS", "US",
    " ", "!", "\"", "#", "$", "%", "&", "'",
    "(", ")", "*", "+", ",", "-", ".", "/",
    "0", "1", "2", "3", "4", "5", "6", "7",
    "8", "9", ":", ";", "<", "=", ">", "?",
    "@", "A", "B", "C", "D", "E", "F", "G",
    "H", "I", "J", "K", "L", "M", "N", "O",
    "P", "Q", "R", "S", "T", "U", "V", "W",
    "X", "Y", "Z", "[", "\\", "]", "^", "_",
    "GRAVE", "a", "b", "c", "d", "e", "f", "g",
    "h", "i", "j", "k", "l", "m", "n", "o",
    "p", "q", "r", "s", "t", "u", "v", "w",
    "x", "y", "z", "{", "|", "}", "~", "DEL">>

\* The character a byte that is no part of a valid UTF-8 sequence decodes to
\* (errors="replace").
ReplacementCharacter == "U+FFFD"

UpperHex == <<"0", "1", "2", "3", "4", "5", "6", "7", "8", "9", "A", "B", "C", "D", "E", "F">>

LowerHex == <<"0", "1", "2", "3", "4", "5", "6", "7", "8", "9", "a", "b", "c", "d", "e", "f">>

\* The keys of urllib.parse._hextobyte are the pairs of these characters.
IsHex(ch) == \E k \in 1..16 : UpperHex[k] = ch \/ LowerHex[k] = ch

HexValue(ch) == (CHOOSE k \in 1..16 : UpperHex[k] = ch \/ LowerHex[k] = ch) - 1

\* bytes([b]).decode("utf-8", "replace") for a byte that stands alone: the
\* raw names of the model can spell no byte 0x80-0xBF, so that a byte from
\* 0x80 on never has the continuation bytes of a sequence after it.
Chr(b) == IF b < 128 THEN Ascii[b + 1] ELSE ReplacementCharacter

\* unquote that decodes nothing.
unquoteBug(s) == s

\* urllib.parse.unquote: every % that two hex digits follow is replaced, with
\* them, by the character of that code; any other % stays.
RECURSIVE unquote(_)
unquote(s) ==
    IF s = <<>> THEN <<>>
    ELSE IF s[1] = "%" /\ Len(s) >= 3 /\ IsHex(s[2]) /\ IsHex(s[3])
    THEN <<Chr(16 * HexValue(s[2]) + HexValue(s[3]))>> \o unquote(SubSeq(s, 4, Len(s)))
    ELSE <<s[1]>> \o unquote(Tail(s))

\* The character class dangerous_chars: nine characters and the codes 0x00-0x1f.
dangerous_chars ==
    {"<", ">", ":", "\"", "/", "\\", "|", "?", "*"} \cup {Ascii[c + 1] : c \in 0..31}

\* re.sub(dangerous_chars, "_", s)
re_sub(s) == [k \in 1..Len(s) |-> IF s[k] \in dangerous_chars THEN "_" ELSE s[k]]

\* s.strip(" .")
RECURSIVE strip(_)
strip(s) ==
    IF s = <<>> THEN s
    ELSE IF s[1] \in {" ", "."} THEN strip(Tail(s))
    ELSE IF s[Len(s)] \in {" ", "."} THEN strip(SubSeq(s, 1, Len(s) - 1))
    ELSE s

unnamed_file == <<"u", "n", "n", "a", "m", "e", "d", "_", "f", "i", "l", "e">>

\* _sanitize_filename(filename): decode, replace, strip, default.
_sanitize_filename(raw) ==
    LET stripped == strip(re_sub(unquote(raw)))
    IN  IF stripped = <<>> THEN unnamed_file ELSE stripped

\* The characters and the raw names of the attachments _sanitize_filename is
\* called for.
RawChars == {"a", ".", " ", "/", "%", "2", "F", "0"}

RawNames == UNION {[1..n -> RawChars] : n \in 0..MaxNameLen}

\* ------------------------------------------------- file names and files
\* The names of the attachments of the model: a.t, a and a_1.t.
SafeNames == {<<"a", ".", "t">>, <<"a">>, <<"a", "_", "1", ".", "t">>}

\* The names an attachment can have: any of them in a call of
\* download_attachments, a.t for every attachment of the tickets of a script.
Filenames == IF entry = "download_attachments" THEN SafeNames ELSE {<<"a", ".", "t">>}

\* The position of the last dot of a name, 0 if it has none.
RECURSIVE LastDot(_)
LastDot(name) ==
    IF name = <<>> THEN 0
    ELSE IF name[Len(name)] = "." THEN Len(name)
    ELSE LastDot(SubSeq(name, 1, Len(name) - 1))

\* os.path.splitext: the extension starts at the last dot, unless only dots
\* precede it.
splitext(name) ==
    LET k == LastDot(name)
    IN  IF k = 0 \/ (\A j \in 1..(k - 1) : name[j] = ".")
        THEN <<name, <<>>>>
        ELSE <<SubSeq(name, 1, k - 1), SubSeq(name, k, Len(name))>>

\* str(counter) of the f-string.
RECURSIVE Digits(_)
Digits(n) ==
    LET d == <<"0", "1", "2", "3", "4", "5", "6", "7", "8", "9">>[(n % 10) + 1]
    IN  IF n < 10 THEN <<d>> ELSE Digits(n \div 10) \o <<d>>

\* Candidate with the counter put after the extension.
CandidateBug(name, counter) == name \o <<"_">> \o Digits(counter)

\* f"{name}_{counter}{ext}" for name, ext = os.path.splitext(safe_filename).
Candidate(name, counter) ==
    splitext(name)[1] \o <<"_">> \o Digits(counter) \o splitext(name)[2]

\* The while loop of lines 278-281, from the value of counter on.
RECURSIVE NextFree(_, _, _)
NextFree(names, name, counter) ==
    IF Candidate(name, counter) \notin names THEN Candidate(name, counter)
    ELSE NextFree(names, name, counter + 1)

\* The path is the name, whether it exists or not.
ResolveCollisionBug(names, name) == name

\* Lines 274-281: the name itself if no such file exists, else the first
\* free candidate with counter 1, 2, ...
ResolveCollision(names, name) ==
    IF name \notin names THEN name ELSE NextFree(names, name, 1)

\* The names of the files of a directory.
Names(d) == {f.name : f \in d}

\* open(path, "wb") and the writes that follow: the file of that name is
\* made or replaced.
WriteFile(d, name, content) ==
    {f \in d : f.name # name} \cup {[name |-> name, content |-> content]}

\* A call of _sanitize_filename(filename), from its first line to its return.
SanitizeFilename ==
    /\ pc = "_sanitize_filename"
    /\ decoded_filename' = unquote(filename)
    /\ safe_filename' = _sanitize_filename(filename)
    /\ pc' = "done"
    /\ UNCHANGED <<sessionVars, mainVars, dir, earlier, download_path, filename, download_log,
                   cfgVars, retryVars, clientVars, driverVars, downloadVars, browserVars>>


\* ------------------------------------------- RedmineAttachment.download
\* Where control goes when RedmineAttachment.download returns.
AfterDownload == IF entry = "download" THEN "done" ELSE "downloaded"

\* Lines 90-98: the content_url check, then the retry and timeout settings
\* are read from the environment into retry_count and retry_interval.
DownloadStart ==
    /\ pc = "download"
    /\ \E has_url \in BOOLEAN :
        IF ~has_url
        THEN /\ dl_result' = "false"
             /\ pc' = AfterDownload
             /\ UNCHANGED <<retry_count, retry_interval, retryVars>>
        ELSE /\ retry_count' = get_retry_settings[1]
             /\ retry_interval' = get_retry_settings[2]
             /\ attempt' = 0
             /\ trace' = <<>>
             /\ pc' = "download_attempt"
             /\ UNCHANGED dl_result
    /\ UNCHANGED <<sessionVars, mainVars, fsVars,
                   cfgVars, clientVars, driverVars, call, file, browserVars>>

\* The file after an attempt: open(path, "wb") truncates, a failure while
\* the chunks are written leaves a part of the content.
FileAfter(outcome) ==
    IF outcome = "ok" THEN "complete"
    ELSE IF outcome = "write_error" THEN "partial"
    ELSE file

\* One iteration of the for loop of download: request, write, except clause.
DownloadAttempt ==
    /\ pc = "download_attempt"
    /\ attempt <= retry_count
    /\ \E outcome \in DownloadOutcomes(CurrentTimeout(attempt)) :
        /\ trace' = Append(trace, Event("attempt", attempt, CurrentTimeout(attempt), outcome))
        /\ file' = FileAfter(outcome)
        /\ dir' = IF outcome \in {"ok", "write_error"}
                  THEN WriteFile(dir, download_path, FileAfter(outcome)) ELSE dir
        /\ IF outcome = "ok"
           THEN /\ dl_result' = "true"
                /\ pc' = AfterDownload
           ELSE IF outcome \in DownloadCaught
           THEN IF attempt < retry_count
                THEN /\ pc' = "download_sleep"
                     /\ UNCHANGED dl_result
                ELSE /\ dl_result' = "false"
                     /\ pc' = AfterDownload
           ELSE /\ dl_result' = "raised"
                /\ pc' = AfterDownload
    /\ UNCHANGED <<sessionVars, mainVars, earlier, safe_filename, download_path,
                   filename, decoded_filename, download_log,
                   cfgVars, attempt, clientVars, driverVars, call, retry_count,
                   retry_interval, browserVars>>

\* DownloadSleep with a pause that grows with the attempt.
DownloadSleepBug ==
    /\ pc = "download_sleep"
    /\ trace' = Append(trace, Event("sleep", attempt, retry_interval * (attempt + 2), "-"))
    /\ attempt' = attempt + 1
    /\ pc' = "download_attempt"
    /\ UNCHANGED <<sessionVars, mainVars, fsVars,
                   cfgVars, clientVars, driverVars, downloadVars, browserVars>>

\* time.sleep(retry_interval) of an except clause, then the next iteration.
DownloadSleep ==
    /\ pc = "download_sleep"
    /\ trace' = Append(trace, Event("sleep", attempt, retry_interval, "-"))
    /\ attempt' = attempt + 1
    /\ pc' = "download_attempt"
    /\ UNCHANGED <<sessionVars, mainVars, fsVars,
                   cfgVars, clientVars, driverVars, downloadVars, browserVars>>


\* The run is one of the delete script: get_issues_with_attachments alone, or
\* main from its call of get_issues_with_attachments on.
DeleteEntry == entry \in {"delete_script", "delete_main"}

\* Where control goes when the function with the while loop returns.
AfterLoop == IF entry = "delete_main" THEN "main" ELSE "done"


\* --------------------------------- the while loop of the two scripts
\* if offset_end > 0 and current_offset >= offset_end: break
RangeExhaustedBug(offset) == config.offset_end > 0 /\ offset > config.offset_end
RangeExhausted(offset) == config.offset_end > 0 /\ offset >= config.offset_end

\* current_offset += limit
NextOffset(offset) == offset + config.limit

\* A test that takes no page for the last one.
LastPageBug(page) == FALSE

\* if len(issues) < limit: break
LastPage(page) == Len(page) < config.limit

\* A test that every ticket passes.
has_attachmentsBug(t) == TRUE

\* issue.has_attachments()
has_attachments(t) == t.attachment_count > 0

\* Top of the while loop: the range check, then the call of get_issues with
\* the current offset. MaxRequests bounds the requests of a run.
LoopTop ==
    /\ pc = "while"
    /\ IF RangeExhausted(current_offset)
       THEN /\ stop' = "range_end"
            /\ pc' = "loop_exit"
            /\ UNCHANGED <<requests, retryVars, mr_result, mr_error, gi_result>>
       ELSE /\ Len(requests) < MaxRequests
            /\ requests' = Append(requests, [offset |-> current_offset, limit |-> config.limit])
            /\ attempt' = 0
            /\ trace' = <<>>
            /\ mr_result' = "none"
            /\ mr_error' = NoEvent
            /\ gi_result' = "none"
            /\ pc' = "_make_request"
            /\ UNCHANGED stop
    /\ UNCHANGED <<sessionVars, mainVars, fsVars,
                   cfgVars, issues, current_offset, batch_count, responses, seen,
                   issues_with_attachments, total_attachments, downloaded_attachments,
                   raised, ticket, att, downloadVars, browserVars>>

\* PageReceived with the run given up, not the loop left, on an empty list.
PageReceivedBug ==
    /\ pc = "page_received"
    /\ IF gi_result = "raised" \/ issues = <<>>
       THEN /\ raised' = TRUE
            /\ pc' = "done"
            /\ UNCHANGED <<batch_count, ticket>>
       ELSE /\ batch_count' = batch_count + 1
            /\ ticket' = 1
            /\ pc' = IF DeleteEntry THEN "filter" ELSE "ticket"
            /\ UNCHANGED raised
    /\ attempt' = 0
    /\ trace' = <<>>
    /\ UNCHANGED <<sessionVars, mainVars, fsVars,
                   cfgVars, clientVars, current_offset, requests, responses,
                   seen, issues_with_attachments, total_attachments,
                   downloaded_attachments, stop, att, downloadVars, browserVars>>

\* After get_issues: the except clause of the script (get_issues raised), the
\* check for an empty list, batch_count += 1. get_issues never raises, so the
\* first branch is never taken. The locals of _make_request are gone.
PageReceived ==
    /\ pc = "page_received"
    /\ IF gi_result = "raised"
       THEN /\ stop' = "error"
            /\ pc' = "loop_exit"
            /\ UNCHANGED <<batch_count, ticket>>
       ELSE IF issues = <<>>
       THEN /\ stop' = "no_data"
            /\ pc' = "loop_exit"
            /\ UNCHANGED <<batch_count, ticket>>
       ELSE /\ batch_count' = batch_count + 1
            /\ ticket' = 1
            /\ pc' = IF DeleteEntry THEN "filter" ELSE "ticket"
            /\ UNCHANGED stop
    /\ attempt' = 0
    /\ trace' = <<>>
    /\ UNCHANGED <<sessionVars, mainVars, fsVars,
                   cfgVars, clientVars, current_offset, requests, responses,
                   seen, issues_with_attachments, total_attachments,
                   downloaded_attachments, raised, att, downloadVars, browserVars>>

\* End of an iteration: the offset moves on, the loop is left on a short page,
\* otherwise the request interval is slept and the loop goes round.
Advance ==
    /\ current_offset' = NextOffset(current_offset)
    /\ IF LastPage(issues)
       THEN /\ stop' = "last_page"
            /\ pc' = "loop_exit"
       ELSE /\ pc' = "while"
            /\ UNCHANGED stop

\* delete_attachments.py: the tickets of the page that have attachments are
\* appended to issues_with_attachments, then the iteration ends.
FilterPage ==
    /\ pc = "filter"
    /\ issues_with_attachments' =
           issues_with_attachments \o SelectSeq(issues, has_attachments)
    /\ Advance
    /\ UNCHANGED <<sessionVars, mainVars, fsVars,
                   cfgVars, retryVars, clientVars, batch_count, requests, responses,
                   seen, total_attachments, downloaded_attachments, raised, ticket, att,
                   downloadVars, browserVars>>

\* donwload_attachments.py: the for loop over the tickets of the page. A ticket
\* with attachments gets its directory removed and made again, so that dir is
\* the empty directory of that ticket (an OSError there leaves the function
\* through the outer except, which raises again); after the last ticket the
\* iteration ends.
ProcessTicket ==
    /\ pc = "ticket"
    /\ IF ticket > Len(issues)
       THEN /\ Advance
            /\ UNCHANGED <<total_attachments, raised, ticket, att, dir, download_log>>
       ELSE IF ~has_attachments(issues[ticket])
       THEN /\ ticket' = ticket + 1
            /\ UNCHANGED <<pc, current_offset, stop, total_attachments, raised, att, dir,
                           download_log>>
       ELSE /\ total_attachments' = total_attachments + issues[ticket].attachment_count
            /\ UNCHANGED download_log
            /\ \E made \in BOOLEAN :
                IF made
                THEN /\ att' = 1
                     /\ dir' = {}
                     /\ pc' = "download_attachments"
                     /\ UNCHANGED raised
                ELSE /\ raised' = TRUE
                     /\ pc' = "done"
                     /\ UNCHANGED <<att, dir>>
            /\ UNCHANGED <<current_offset, stop, ticket>>
    /\ UNCHANGED <<sessionVars, mainVars, earlier, safe_filename, download_path,
                   filename, decoded_filename,
                   cfgVars, retryVars, clientVars, batch_count, requests, responses,
                   seen, issues_with_attachments, downloaded_attachments,
                   downloadVars, browserVars>>

\* A log line of download_attachments for the attachment at hand: "downloaded"
\* (logger.info of lines 294-296), "failed" (logger.error of lines 298-300,
\* download returned False) or "error" (logger.error of the except clause).
LogLine(result) == [issue_id |-> issues[ticket].id, attachment |-> att, result |-> result]

\* The log with one more line. The lines are followed in the runs that start
\* at main or at a call of download_attachments, not in those of the while
\* loop alone.
Logged(line) ==
    IF entry = "download_script" THEN download_log ELSE Append(download_log, line)

\* RedmineIssue.download_attachments: the for loop over the attachments. The
\* name is sanitized and the path is the first one free in the directory (an
\* exception there is logged by the except clause of the loop body), and
\* download is called with the retry arguments of the caller. After the last
\* attachment the script counts them all as downloaded and is done with the
\* directory of the ticket.
DownloadAttachments ==
    /\ pc = "download_attachments"
    /\ IF att > issues[ticket].attachment_count
       THEN /\ IF entry = "download_attachments"
               THEN /\ pc' = "done"
                    /\ UNCHANGED <<downloaded_attachments, ticket, dir>>
               ELSE /\ downloaded_attachments' =
                           downloaded_attachments + issues[ticket].attachment_count
                    /\ ticket' = ticket + 1
                    /\ dir' = {}
                    /\ pc' = "ticket"
            /\ UNCHANGED <<att, downloadVars, safe_filename, download_path, download_log>>
       ELSE \E prepared \in BOOLEAN, original_filename \in Filenames :
            IF prepared
            THEN /\ safe_filename' = _sanitize_filename(original_filename)
                 /\ download_path' = ResolveCollision(Names(dir), safe_filename')
                 /\ UNCHANGED dir
                 /\ call' = [retry_count |-> config.retry_count,
                             retry_interval |-> config.retry_interval]
                 /\ retry_count' = config.retry_count
                 /\ retry_interval' = config.retry_interval
                 /\ dl_result' = "none"
                 /\ file' = "absent"
                 /\ pc' = "download"
                 /\ UNCHANGED <<downloaded_attachments, ticket, att, download_log>>
            ELSE /\ att' = att + 1
                 /\ download_log' = Logged(LogLine("error"))
                 /\ UNCHANGED <<pc, downloaded_attachments, ticket, downloadVars,
                                safe_filename, download_path, dir>>
    /\ UNCHANGED <<sessionVars, mainVars, earlier, filename, decoded_filename,
                   cfgVars, retryVars, clientVars, current_offset, batch_count, requests,
                   responses, seen, issues_with_attachments, total_attachments, stop,
                   raised, browserVars>>

\* A loop that takes every download for a success.
DownloadLoggedBug(result) == "downloaded"

\* Lines 289-312: True is logged as a download, False as a failure, and an
\* exception of download would be logged by the except clause.
DownloadLogged(result) ==
    IF result = "true" THEN "downloaded"
    ELSE IF result = "false" THEN "failed" ELSE "error"

\* download returned to download_attachments: the result is logged, the
\* download interval is slept, the loop goes to the next attachment. The
\* locals of download are gone.
Downloaded ==
    /\ pc = "downloaded"
    /\ download_log' = Logged(LogLine(DownloadLogged(dl_result)))
    /\ att' = att + 1
    /\ pc' = "download_attachments"
    /\ attempt' = 0
    /\ trace' = <<>>
    /\ dl_result' = "none"
    /\ file' = "absent"
    /\ safe_filename' = <<>>
    /\ download_path' = <<>>
    /\ retry_count' = call.retry_count
    /\ retry_interval' = call.retry_interval
    /\ UNCHANGED <<sessionVars, mainVars, dir, earlier, filename, decoded_filename,
                   cfgVars, clientVars, current_offset, batch_count, requests,
                   responses, seen, issues_with_attachments, total_attachments,
                   downloaded_attachments, stop, raised, ticket, call, browserVars>>

\* After the while loop: the totals are logged and the function returns.
LoopExit ==
    /\ pc = "loop_exit"
    /\ pc' = AfterLoop
    /\ UNCHANGED <<sessionVars, mainVars, fsVars,
                   cfgVars, retryVars, clientVars, driverVars, downloadVars, browserVars>>


\* ------------------------- RedmineBrowserClient.delete_attachments_from_issue
\* What one attempt of the delete loop can do: the click and the wait both
\* succeed, the click raises, or the click takes effect and the wait for the
\* page to settle raises.
DeleteOutcomes == {"ok", "click_error", "wait_error"}

\* Where control goes when delete_attachments_from_issue returns.
AfterDeleteIssue ==
    IF entry = "delete_attachments_from_issue" THEN "done" ELSE "delete_result"

\* An entry of steps: the call of delete_attachments_from_issue for a ticket
\* and its return, the end of the retry loop of attachment n of the ticket,
\* a sleep of n units of the delete interval.
Step(kind, id, n) == [kind |-> kind, issue_id |-> id, n |-> n]

\* A pause after every item, the last one too.
DeletePauseBug(k, n) ==
    IF browser.delete_interval > 0
    THEN <<Step("pause", issue_id, browser.delete_interval)>> ELSE <<>>

\* asyncio.sleep(self.delete_interval) after item k of n, attachments of a
\* ticket (lines 306-308) or tickets of a batch (lines 356-358): only for a
\* positive interval and not after the last item.
DeletePause(k, n) ==
    IF browser.delete_interval > 0 /\ k < n
    THEN <<Step("pause", issue_id, browser.delete_interval)>> ELSE <<>>

\* The call ends in failure when there is nothing to delete.
NothingToDeleteBug == "false"

\* Lines 224-238: return True when the page has no attachments section or
\* the section has no delete control.
NothingToDelete == "true"

\* The page is opened and the delete controls are counted. An exception there
\* is caught by the outer except (return False): without a page
\* self.page.goto is an attribute of None. No section or no control is
\* return True.
OpenIssuePage ==
    /\ pc = "delete_attachments_from_issue"
    /\ \E opened \in BOOLEAN, section \in BOOLEAN, n \in 0..MaxAttachments :
        /\ self_page = "none" => ~opened
        /\ ~section => n = 0
        /\ visits' = IF self_page = "none" THEN visits ELSE Append(visits, issue_id)
        /\ IF ~opened
           THEN /\ del_result' = "false"
                /\ pc' = AfterDeleteIssue
                /\ UNCHANGED <<attachments_section, attachment_count, remaining, clicked, i,
                               failed_attachments, retryVars>>
           ELSE IF ~section \/ n = 0
           THEN /\ attachments_section' = IF section THEN "present" ELSE "absent"
                /\ del_result' = NothingToDelete
                /\ pc' = AfterDeleteIssue
                /\ UNCHANGED <<attachment_count, remaining, clicked, i, failed_attachments,
                               retryVars>>
           ELSE /\ attachments_section' = "present"
                /\ attachment_count' = n
                /\ remaining' = n
                /\ clicked' = {}
                /\ i' = 0
                /\ failed_attachments' = <<>>
                /\ attempt' = 0
                /\ trace' = <<>>
                /\ pc' = "delete_attempt"
                /\ UNCHANGED del_result
    /\ UNCHANGED <<self_page, header, login_result, issue_ids, batch_i, issue_id, results,
                   all_failed_attachments, manual_log, deletions, steps, returned, mainVars, fsVars,
                   cfgVars, clientVars, driverVars, downloadVars>>

\* delete_buttons.nth(0): the first delete control the page has now. The
\* controls are those of the attachments 1..attachment_count in their order
\* and a click that takes effect removes the first, so that it is the control
\* of attachment attachment_count - remaining + 1, and none (0) when no
\* control is left.
Target == IF remaining > 0 THEN attachment_count - remaining + 1 ELSE 0

\* The deletion of attachment i + 1 of the ticket, attempted and not (yet)
\* confirmed, or confirmed by an attempt that ended without an exception.
Deletion(confirmed) ==
    [issue_id |-> issue_id, attachment_index |-> i + 1, confirmed |-> confirmed]

\* DeleteAttempt without the record of the attachment that used up its attempts.
DeleteAttemptBug ==
    /\ pc = "delete_attempt"
    /\ attempt <= browser.retry_count
    /\ \E outcome \in DeleteOutcomes :
        /\ remaining = 0 => outcome = "click_error"
        /\ trace' = Append(trace, Event("attempt", attempt, 0, outcome))
        /\ remaining' = IF outcome = "click_error" THEN remaining ELSE remaining - 1
        /\ clicked' = clicked \cup {[iteration |-> i + 1, target |-> Target]}
        /\ deletions' = (deletions \ {Deletion(FALSE)}) \cup {Deletion(outcome = "ok")}
        /\ pc' = IF outcome # "ok" /\ attempt < browser.retry_count
                 THEN "delete_sleep" ELSE "delete_next"
        /\ UNCHANGED failed_attachments
    /\ UNCHANGED <<self_page, header, login_result, issue_ids, batch_i, issue_id, results,
                   all_failed_attachments, manual_log, visits, steps, returned, mainVars, fsVars,
                   cfgVars, attempt, clientVars, driverVars, downloadVars,
                   attachments_section, attachment_count, i, del_result>>

\* One iteration of the retry loop: delete_buttons.nth(0).click(), the wait
\* for the page to settle (asyncio.sleep(0.5) and wait_for_load_state, both
\* part of the attempt), and the except clause. With no control left the
\* click can only raise. After the last attempt failed the attachment is
\* recorded in failed_attachments.
DeleteAttempt ==
    /\ pc = "delete_attempt"
    /\ attempt <= browser.retry_count
    /\ \E outcome \in DeleteOutcomes :
        /\ remaining = 0 => outcome = "click_error"
        /\ trace' = Append(trace, Event("attempt", attempt, 0, outcome))
        /\ remaining' = IF outcome = "click_error" THEN remaining ELSE remaining - 1
        /\ clicked' = clicked \cup {[iteration |-> i + 1, target |-> Target]}
        /\ deletions' = (deletions \ {Deletion(FALSE)}) \cup {Deletion(outcome = "ok")}
        /\ IF outcome = "ok"
           THEN /\ pc' = "delete_next"
                /\ UNCHANGED failed_attachments
           ELSE IF attempt < browser.retry_count
           THEN /\ pc' = "delete_sleep"
                /\ UNCHANGED failed_attachments
           ELSE /\ failed_attachments' = Append(failed_attachments,
                       [issue_id |-> issue_id, attachment_index |-> i + 1,
                        total_attachments |-> attachment_count])
                /\ pc' = "delete_next"
    /\ UNCHANGED <<self_page, header, login_result, issue_ids, batch_i, issue_id, results,
                   all_failed_attachments, manual_log, visits, steps, returned, mainVars, fsVars,
                   cfgVars, attempt, clientVars, driverVars, downloadVars,
                   attachments_section, attachment_count, i, del_result>>

\* asyncio.sleep(self.retry_interval) of the except clause, then the next attempt.
DeleteSleep ==
    /\ pc = "delete_sleep"
    /\ trace' = Append(trace, Event("sleep", attempt, browser.retry_interval, "-"))
    /\ attempt' = attempt + 1
    /\ pc' = "delete_attempt"
    /\ UNCHANGED <<sessionVars, mainVars, fsVars,
                   cfgVars, clientVars, driverVars, downloadVars, browserVars>>

\* What delete_attachments_from_issue returns after its loop.
IssueResultBug == "true"
IssueResult == IF failed_attachments = <<>> THEN "true" ELSE "false"

\* End of the body of the loop over the attachments: the delete interval is
\* slept unless this was the last one or the interval is not positive; after
\* the last one every entry of
\* failed_attachments is logged as [MANUAL_DELETE_REQUIRED] and the result is
\* True when there is none.
DeleteNext ==
    /\ pc = "delete_next"
    /\ i' = i + 1
    /\ steps' = steps \o <<Step("attachment", issue_id, i + 1)>>
                      \o DeletePause(i + 1, attachment_count)
    /\ IF i + 1 < attachment_count
       THEN /\ attempt' = 0
            /\ trace' = <<>>
            /\ pc' = "delete_attempt"
            /\ UNCHANGED <<del_result, manual_log>>
       ELSE /\ manual_log' = manual_log \o failed_attachments
            /\ del_result' = IssueResult
            /\ pc' = AfterDeleteIssue
            /\ UNCHANGED retryVars
    /\ UNCHANGED <<self_page, header, login_result, issue_ids, batch_i, issue_id, results,
                   all_failed_attachments, visits, deletions, returned, mainVars, fsVars,
                   cfgVars, clientVars, driverVars, downloadVars,
                   attachments_section, attachment_count, remaining, clicked,
                   failed_attachments>>


\* ------------------------- RedmineBrowserClient: the session and the batch
\* login: basic is return True without a browser (_setup_browser is called by
\* login_with_page alone); login_page is login_with_page, which sets the
\* browser up when there is no page, fills the form and looks at the URL it
\* lands on, and turns every exception into False; anything else is False.
\* _setup_browser does not await set_extra_http_headers, so the header is
\* not sent.
Login ==
    /\ pc = "login"
    /\ IF browser.auth_method = "basic"
       THEN /\ login_result' = "true"
            /\ UNCHANGED self_page
       ELSE IF browser.auth_method = "login_page"
       THEN \E setup \in BOOLEAN, form \in {"in", "rejected", "exception"} :
            /\ self_page = "ready" => setup
            /\ self_page' = IF setup THEN "ready" ELSE "none"
            /\ login_result' = IF setup /\ form = "in" THEN "true" ELSE "false"
       ELSE /\ login_result' = "false"
            /\ UNCHANGED self_page
    /\ pc' = "login_returned"
    /\ UNCHANGED <<header, issue_ids, batch_i, issue_id, results, all_failed_attachments,
                   manual_log, visits, deletions, steps, returned, mainVars, fsVars,
                   cfgVars, retryVars, clientVars, driverVars, downloadVars, browserVars>>

\* DeleteFromIssues for a loop that is left after a ticket that failed.
DeleteFromIssuesBug ==
    /\ pc = "delete_attachments_from_issues"
    /\ IF batch_i >= Len(issue_ids) \/ (\E r \in results : ~r.success)
       THEN /\ pc' = "delete_returned"
            /\ UNCHANGED <<batch_i, issue_id, steps>>
       ELSE /\ batch_i' = batch_i + 1
            /\ issue_id' = issue_ids[batch_i + 1]
            /\ steps' = Append(steps, Step("call", issue_ids[batch_i + 1], 0))
            /\ pc' = "delete_attachments_from_issue"
    /\ UNCHANGED <<self_page, header, login_result, issue_ids, results, all_failed_attachments,
                   manual_log, visits, deletions, returned, mainVars, fsVars,
                   cfgVars, retryVars, clientVars, driverVars, downloadVars, browserVars>>

\* DeleteFromIssues for a loop that takes the ids from the end of the list.
DeleteFromIssuesReversedBug ==
    /\ pc = "delete_attachments_from_issues"
    /\ IF batch_i >= Len(issue_ids)
       THEN /\ pc' = "delete_returned"
            /\ UNCHANGED <<batch_i, issue_id, steps>>
       ELSE /\ batch_i' = batch_i + 1
            /\ issue_id' = issue_ids[Len(issue_ids) - batch_i]
            /\ steps' = Append(steps, Step("call", issue_ids[Len(issue_ids) - batch_i], 0))
            /\ pc' = "delete_attachments_from_issue"
    /\ UNCHANGED <<self_page, header, login_result, issue_ids, results, all_failed_attachments,
                   manual_log, visits, deletions, returned, mainVars, fsVars,
                   cfgVars, retryVars, clientVars, driverVars, downloadVars, browserVars>>

\* delete_attachments_from_issues, the head of its for loop: after the last
\* id the counts are logged and results is returned, all_failed_attachments
\* as empty as it was made.
DeleteFromIssues ==
    /\ pc = "delete_attachments_from_issues"
    /\ IF batch_i >= Len(issue_ids)
       THEN /\ pc' = "delete_returned"
            /\ UNCHANGED <<batch_i, issue_id, steps>>
       ELSE /\ batch_i' = batch_i + 1
            /\ issue_id' = issue_ids[batch_i + 1]
            /\ steps' = Append(steps, Step("call", issue_ids[batch_i + 1], 0))
            /\ pc' = "delete_attachments_from_issue"
    /\ UNCHANGED <<self_page, header, login_result, issue_ids, results, all_failed_attachments,
                   manual_log, visits, deletions, returned, mainVars, fsVars,
                   cfgVars, retryVars, clientVars, driverVars, downloadVars, browserVars>>

\* results[issue_id] = success, for a dict held as the set of its items.
SetResult(d, id, success) ==
    {r \in d : r.issue_id # id} \cup {[issue_id |-> id, success |-> success]}

\* The body of that loop after the call: the result is stored under the id
\* and the delete interval is slept unless this was the last id or the
\* interval is not positive; the locals of the call are gone.
DeleteResult ==
    /\ pc = "delete_result"
    /\ results' = SetResult(results, issue_id, del_result = "true")
    /\ returned' = Append(returned, del_result = "true")
    /\ steps' = Append(steps, Step("return", issue_id, 0))
                      \o DeletePause(batch_i, Len(issue_ids))
    /\ pc' = "delete_attachments_from_issues"
    /\ attempt' = 0
    /\ trace' = <<>>
    /\ attachments_section' = "unknown"
    /\ attachment_count' = 0
    /\ remaining' = 0
    /\ clicked' = {}
    /\ i' = 0
    /\ failed_attachments' = <<>>
    /\ del_result' = "none"
    /\ UNCHANGED <<self_page, header, login_result, issue_ids, batch_i, issue_id,
                   all_failed_attachments, manual_log, visits, deletions, mainVars,
                   fsVars, cfgVars, clientVars, driverVars, downloadVars>>


\* --------------------------------------- delete_attachments.py: main
\* What the confirmation can be: REDMINE_DELETE_CONFIRM_SKIP is true, or
\* input() returns yes or y, returns anything else, is interrupted, or finds
\* the input closed.
Answers == {"skipped", "yes", "no", "interrupt", "eof"}

\* The answers main goes on with.
ConfirmedBug == Answers
Confirmed == {"skipped", "yes"}

\* The ids the script hands to the browser client.
RECURSIVE IdsOf(_)
IdsOf(ts) == IF ts = <<>> THEN <<>> ELSE <<Head(ts).id>> \o IdsOf(Tail(ts))

\* Lines 300-329: without a ticket main returns; otherwise the confirmation
\* is asked for unless it is skipped. A declined or interrupted prompt is a
\* return, EOFError goes to the except clause of main (sys.exit(1)).
MainConfirm ==
    /\ pc = "main"
    /\ IF issues_with_attachments = <<>>
       THEN /\ exit_code' = "0"
            /\ exit_cause' = "return"
            /\ pc' = "exit"
            /\ UNCHANGED <<answer, issue_ids>>
       ELSE \E a \in Answers :
            /\ answer' = a
            /\ IF a \in Confirmed
               THEN /\ issue_ids' = IdsOf(issues_with_attachments)
                    /\ pc' = "login"
                    /\ UNCHANGED <<exit_code, exit_cause>>
               ELSE /\ exit_code' = IF a = "eof" THEN "1" ELSE "0"
                    /\ exit_cause' = IF a = "eof" THEN "Exception" ELSE "return"
                    /\ pc' = "exit"
                    /\ UNCHANGED issue_ids
    /\ UNCHANGED <<self_page, header, login_result, batch_i, issue_id, results,
                   all_failed_attachments, manual_log, visits, deletions, steps, returned, fsVars,
                   cfgVars, retryVars, clientVars, driverVars, downloadVars, browserVars>>

\* LoginReturned for a caller that does not look at what login returned.
LoginReturnedBug ==
    /\ pc = "login_returned"
    /\ pc' = IF issue_ids = <<>> THEN "close" ELSE "delete_attachments_from_issues"
    /\ UNCHANGED <<sessionVars, mainVars, fsVars,
                   cfgVars, retryVars, clientVars, driverVars, downloadVars, browserVars>>

\* Lines 344-351: after a failed login main returns through the end of the
\* async with block; otherwise the script's delete_attachments_from_issues
\* hands the ids to the browser client (an empty list is returned for at once).
LoginReturned ==
    /\ pc = "login_returned"
    /\ pc' = IF login_result = "false" \/ issue_ids = <<>>
             THEN "close" ELSE "delete_attachments_from_issues"
    /\ UNCHANGED <<sessionVars, mainVars, fsVars,
                   cfgVars, retryVars, clientVars, driverVars, downloadVars, browserVars>>

\* DeleteReturned for a script that fetches the list again after the batch.
DeleteReturnedRefetchBug ==
    /\ pc = "delete_returned"
    /\ current_offset' = config.offset_start
    /\ pc' = "while"
    /\ UNCHANGED <<sessionVars, mainVars, fsVars,
                   cfgVars, retryVars, clientVars, batch_count, requests, responses, seen,
                   issues_with_attachments, total_attachments, downloaded_attachments,
                   stop, raised, ticket, att, downloadVars, browserVars>>

\* The browser client returned its results to the script, which logs them
\* and returns to main.
DeleteReturned ==
    /\ pc = "delete_returned"
    /\ pc' = "close"
    /\ UNCHANGED <<sessionVars, mainVars, fsVars,
                   cfgVars, retryVars, clientVars, driverVars, downloadVars, browserVars>>

\* __aexit__ closes the browser, main returns and the process ends.
Close ==
    /\ pc = "close"
    /\ self_page' = IF self_page = "ready" THEN "closed" ELSE self_page
    /\ exit_code' = "0"
    /\ exit_cause' = "return"
    /\ pc' = "exit"
    /\ UNCHANGED <<header, login_result, issue_ids, batch_i, issue_id, results,
                   all_failed_attachments, manual_log, visits, deletions, steps, returned, answer, fsVars,
                   cfgVars, retryVars, clientVars, driverVars, downloadVars, browserVars>>

\* The user interrupts the run while the browser is in use. Nothing of the
\* browser client catches it (its except clauses are except Exception) and
\* the process ends with a status other than 0 (sys.exit(1) of main's except
\* clause when KeyboardInterrupt is raised in its code, the interpreter's own
\* exit when asyncio.run raises it): what the process held in memory is gone,
\* what it logged and did to the tickets stays.
Interrupt ==
    /\ pc \in {"login", "login_returned", "delete_attachments_from_issues",
               "delete_attachments_from_issue", "delete_attempt", "delete_sleep",
               "delete_next", "delete_result", "delete_returned"}
    /\ exit_code' = "1"
    /\ exit_cause' = "KeyboardInterrupt"
    /\ pc' = "exit"
    /\ attempt' = 0
    /\ trace' = <<>>
    /\ attachments_section' = "unknown"
    /\ attachment_count' = 0
    /\ remaining' = 0
    /\ clicked' = {}
    /\ i' = 0
    /\ failed_attachments' = <<>>
    /\ del_result' = "none"
    /\ batch_i' = 0
    /\ issue_id' = 0
    /\ results' = {}
    /\ steps' = <<>>
    /\ returned' = <<>>
    /\ UNCHANGED <<self_page, header, login_result, issue_ids, all_failed_attachments,
                   manual_log, visits, deletions, answer, fsVars,
                   cfgVars, clientVars, driverVars, downloadVars>>


\* ------------------------------------------------------ initial states
\* State shared by every run before its first step.
InitRest ==
    /\ attempt = 0
    /\ trace = <<>>
    /\ mr_result = "none"
    /\ mr_error = NoEvent
    /\ gi_result = "none"
    /\ batch_count = 0
    /\ responses = <<>>
    /\ seen = <<>>
    /\ issues_with_attachments = <<>>
    /\ total_attachments = 0
    /\ downloaded_attachments = 0
    /\ stop = "none"
    /\ raised = FALSE
    /\ dl_result = "none"
    /\ file = "absent"
    /\ attachments_section = "unknown"
    /\ attachment_count = 0
    /\ remaining = 0
    /\ clicked = {}
    /\ i = 0
    /\ failed_attachments = <<>>
    /\ del_result = "none"
    /\ login_result = "none"
    /\ batch_i = 0
    /\ results = {}
    /\ all_failed_attachments = <<>>
    /\ steps = <<>>
    /\ returned = <<>>
    /\ manual_log = <<>>
    /\ visits = <<>>
    /\ deletions = {}
    /\ answer = "none"
    /\ exit_code = "none"
    /\ exit_cause = "none"
    /\ safe_filename = <<>>
    /\ download_path = <<>>
    /\ decoded_filename = <<>>
    /\ download_log = <<>>

\* A run of one of the two scripts, at the first test of its while loop. The
\* retry count of the script's config and of the client are the same
\* environment variable; the timeouts and intervals are held at one unit.
Init ==
    /\ entry \in {"download_script", "delete_script"}
    /\ env \in [retry_count : 0..MaxScriptRetry, retry_interval : {1},
                base_timeout : {1}, timeout_increment : {1}]
    /\ config \in [limit : 0..MaxLimit, offset_start : 0..MaxOffsetStart,
                   offset_end : 0..MaxOffsetEnd,
                   retry_count : {env.retry_count}, retry_interval : {env.retry_interval}]
    /\ browser = [retry_count |-> 0, retry_interval |-> 1, delete_interval |-> 1,
                  auth_method |-> "login_page"]
    /\ self_page = "none"
    /\ header = FALSE
    /\ issue_ids = <<>>
    /\ issues = <<>>
    /\ ticket = 0
    /\ att = 0
    /\ earlier = {}
    /\ dir = {}
    /\ filename = <<>>
    /\ issue_id = 0
    /\ pc = "while"
    /\ current_offset = config.offset_start
    /\ requests = <<>>
    /\ call = [retry_count |-> config.retry_count, retry_interval |-> config.retry_interval]
    /\ retry_count = config.retry_count
    /\ retry_interval = config.retry_interval
    /\ InitRest

Next ==
    \/ LoopTop
    \/ MakeRequestAttempt
    \/ MakeRequestSleep
    \/ GetIssuesReturn
    \/ GetIssuesExcept
    \/ PageReceived
    \/ FilterPage
    \/ ProcessTicket
    \/ DownloadAttachments
    \/ DownloadStart
    \/ DownloadAttempt
    \/ DownloadSleep
    \/ Downloaded
    \/ LoopExit

Spec == Init /\ [][Next]_vars

\* One call of a method of the two clients: get_issues(limit, offset),
\* RedmineAttachment.download(directory, filename, retry_count, retry_interval),
\* delete_attachments_from_issue(issue_id) or _sanitize_filename(filename), at
\* its first statement.
InitCall ==
    /\ entry \in {"get_issues", "download", "delete_attachments_from_issue",
                 "_sanitize_filename"}
    /\ IF entry = "delete_attachments_from_issue"
       THEN /\ env = [retry_count |-> 0, retry_interval |-> 1,
                      base_timeout |-> 1, timeout_increment |-> 1]
            /\ browser \in [retry_count : 0..MaxRetry, retry_interval : 1..MaxInterval,
                           delete_interval : 0..MaxInterval, auth_method : {"login_page"}]
            /\ self_page = "ready"
            /\ issue_id = 1
       ELSE IF entry = "_sanitize_filename"
       THEN /\ env = [retry_count |-> 0, retry_interval |-> 1,
                      base_timeout |-> 1, timeout_increment |-> 1]
            /\ browser = [retry_count |-> 0, retry_interval |-> 1, delete_interval |-> 1,
                  auth_method |-> "login_page"]
            /\ self_page = "none"
            /\ issue_id = 0
       ELSE /\ env \in [retry_count : 0..MaxRetry, retry_interval : 1..MaxInterval,
                        base_timeout : 0..MaxBaseTimeout,
                        timeout_increment : 0..MaxTimeoutIncrement]
            /\ browser = [retry_count |-> 0, retry_interval |-> 1, delete_interval |-> 1,
                  auth_method |-> "login_page"]
            /\ self_page = "none"
            /\ issue_id = 0
    /\ header = FALSE
    /\ issue_ids = <<>>
    /\ issues = <<>>
    /\ ticket = 0
    /\ att = 0
    /\ earlier = {}
    /\ dir = {}
    /\ IF entry = "_sanitize_filename" THEN filename \in RawNames ELSE filename = <<>>
    /\ config = [limit |-> 1, offset_start |-> 0, offset_end |-> 0,
                 retry_count |-> env.retry_count, retry_interval |-> env.retry_interval]
    /\ pc = IF entry = "get_issues" THEN "_make_request" ELSE entry
    /\ current_offset = 0
    /\ requests = IF entry = "get_issues"
                  THEN <<[offset |-> 0, limit |-> config.limit]>> ELSE <<>>
    /\ IF entry = "download"
       THEN call \in [retry_count : 0..MaxRetry, retry_interval : 1..MaxInterval]
       ELSE call = [retry_count |-> 0, retry_interval |-> 1]
    /\ retry_count = call.retry_count
    /\ retry_interval = call.retry_interval
    /\ InitRest

NextCall ==
    \/ MakeRequestAttempt
    \/ MakeRequestSleep
    \/ GetIssuesReturn
    \/ GetIssuesExcept
    \/ DownloadStart
    \/ DownloadAttempt
    \/ DownloadSleep
    \/ SanitizeFilename
    \/ OpenIssuePage
    \/ DeleteAttempt
    \/ DeleteSleep
    \/ DeleteNext

SpecCall == InitCall /\ [][NextCall]_vars


\* The id lists a caller can hand to the browser client.
IdLists == UNION {[1..n -> 1..MaxIssueId] : n \in 0..MaxIds}

\* A run of the delete script from main's call of get_issues_with_attachments
\* on (line 297), for a config dict that asks for one page and the client
\* main builds (auth_method is left at its default); or the async with block
\* of main alone, for a client built with any auth_method (and no retry) and
\* any list of ids. The config is taken as given: setup_environment as it is written
\* unpacks the seven values of get_browser_settings into six names.
InitDelete ==
    /\ entry \in {"delete_main", "browser_session"}
    /\ env = [retry_count |-> MaxScriptRetry, retry_interval |-> 1,
              base_timeout |-> 1, timeout_increment |-> 1]
    /\ config = [limit |-> MaxLimit, offset_start |-> 0, offset_end |-> MaxLimit,
                 retry_count |-> env.retry_count, retry_interval |-> env.retry_interval]
    /\ IF entry = "delete_main"
       THEN /\ browser \in [retry_count : {0, MaxScriptRetry}, retry_interval : {1},
                            delete_interval : {1}, auth_method : {"login_page"}]
            /\ issue_ids = <<>>
            /\ pc = "while"
       ELSE /\ browser \in [retry_count : {0}, retry_interval : {1},
                            delete_interval : {1},
                            auth_method : {"basic", "login_page", "digest"}]
            /\ issue_ids \in IdLists
            /\ pc = "login"
    /\ self_page = "none"
    /\ header = FALSE
    /\ issue_id = 0
    /\ issues = <<>>
    /\ ticket = 0
    /\ att = 0
    /\ earlier = {}
    /\ dir = {}
    /\ filename = <<>>
    /\ current_offset = config.offset_start
    /\ requests = <<>>
    /\ call = [retry_count |-> config.retry_count, retry_interval |-> config.retry_interval]
    /\ retry_count = config.retry_count
    /\ retry_interval = config.retry_interval
    /\ InitRest

NextDelete ==
    \/ LoopTop
    \/ MakeRequestAttempt
    \/ MakeRequestSleep
    \/ GetIssuesReturn
    \/ GetIssuesExcept
    \/ PageReceived
    \/ FilterPage
    \/ LoopExit
    \/ MainConfirm
    \/ Login
    \/ LoginReturned
    \/ DeleteFromIssues
    \/ OpenIssuePage
    \/ DeleteAttempt
    \/ DeleteSleep
    \/ DeleteNext
    \/ DeleteResult
    \/ DeleteReturned
    \/ Close
    \/ Interrupt

SpecDelete == InitDelete /\ [][NextDelete]_vars


\* The directories an earlier run can have left: any of a.t, a_1.t, ... with
\* the content of that run.
EarlierDirs ==
    SUBSET {[name |-> n, content |-> "old"] :
                n \in {<<"a", ".", "t">>} \cup
                      {Candidate(<<"a", ".", "t">>, c) : c \in 1..MaxEarlier}}

\* A run of the download script from main's call of download_attachments on
\* (line 285), for a config that asks for one page, where every ticket directory
\* holds the files of an earlier run (REDMINE_CLEAR_DOWNLOADS is not true); or
\* a call of RedmineIssue.download_attachments(download_dir, ...) for a ticket
\* and a directory that holds such files.
InitFiles ==
    /\ entry \in {"download_main", "download_attachments"}
    /\ env = [retry_count |-> MaxScriptRetry, retry_interval |-> 1,
              base_timeout |-> 1, timeout_increment |-> 1]
    /\ config = [limit |-> MaxLimit, offset_start |-> 0, offset_end |-> MaxLimit,
                 retry_count |-> env.retry_count, retry_interval |-> env.retry_interval]
    /\ browser = [retry_count |-> 0, retry_interval |-> 1, delete_interval |-> 1,
                  auth_method |-> "login_page"]
    /\ earlier \in EarlierDirs
    /\ filename = <<>>
    /\ IF entry = "download_main"
       THEN /\ issues = <<>>
            /\ ticket = 0
            /\ att = 0
            /\ dir = {}
            /\ pc = "while"
       ELSE /\ \E n \in 1..MaxAttachments : issues = <<Ticket(1, n)>>
            /\ ticket = 1
            /\ att = 1
            /\ dir = earlier
            /\ pc = "download_attachments"
    /\ self_page = "none"
    /\ header = FALSE
    /\ issue_ids = <<>>
    /\ issue_id = 0
    /\ current_offset = config.offset_start
    /\ requests = <<>>
    /\ call = [retry_count |-> config.retry_count, retry_interval |-> config.retry_interval]
    /\ retry_count = config.retry_count
    /\ retry_interval = config.retry_interval
    /\ InitRest

NextFiles ==
    \/ LoopTop
    \/ MakeRequestAttempt
    \/ MakeRequestSleep
    \/ GetIssuesReturn
    \/ GetIssuesExcept
    \/ PageReceived
    \/ ProcessTicket
    \/ DownloadAttachments
    \/ DownloadStart
    \/ DownloadAttempt
    \/ DownloadSleep
    \/ Downloaded
    \/ LoopExit

SpecFiles == InitFiles /\ [][NextFiles]_vars


\* ====================================================== claims: pagination
RECURSIVE SumAttachments(_)
SumAttachments(ts) ==
    IF ts = <<>> THEN 0 ELSE Head(ts).attachment_count + SumAttachments(Tail(ts))

\* C1: with limit >= 1, the k-th list request (k = 0, 1, ...) of the while
\* loop carries offset offset_start + k*limit, the offsets never go down, no
\* request carries an offset >= offset_end when offset_end > 0, and no request
\* follows a page that held fewer than limit tickets.
C1_RequestOffsets ==
    config.limit >= 1 =>
        /\ \A k \in 1..Len(requests) :
              /\ requests[k].offset = config.offset_start + (k - 1) * config.limit
              /\ requests[k].limit = config.limit
              /\ config.offset_end > 0 => requests[k].offset < config.offset_end
        /\ \A k \in 1..(Len(requests) - 1) : requests[k].offset <= requests[k + 1].offset
        /\ requests # <<>> => current_offset >= requests[Len(requests)].offset
        /\ \A k \in 1..Len(responses) :
              responses[k].size < config.limit => Len(requests) = k

\* A run that asked for offsets 1 and 2, then met the end of the range at 3.
C1_Witness ==
    /\ pc = "done"
    /\ config.limit = 1
    /\ config.offset_start = 1
    /\ config.offset_end = 3
    /\ Len(requests) = 2
    /\ stop = "range_end"

\* C2: every iteration of the while loop either leaves the loop or ends with
\* an offset greater than the one it began with, for every configuration and
\* every answer of the server.
C2_IterationStopsOrAdvances ==
    [][(pc # "while" /\ pc' = "while") => current_offset' > current_offset]_vars

\* C3: once a list request has failed after its retries, no further request
\* is issued, the script's function returns without raising, and what it
\* returns holds every ticket with attachments of the pages received before
\* (the download script has counted every attachment of those tickets).
C3_FetchFailureKeepsResults ==
    \A k \in 1..Len(responses) :
        responses[k].failed =>
            /\ Len(requests) = k
            /\ ~raised
            /\ pc \in {"page_received", "loop_exit", "done"}
            /\ pc = "done" =>
                  /\ stop = "no_data"
                  /\ entry = "delete_script" => issues_with_attachments = seen
                  /\ entry = "download_script" =>
                        total_attachments = SumAttachments(seen)

\* A delete run whose second list request failed after a first page with a
\* ticket that has attachments.
C3_Witness ==
    /\ pc = "done"
    /\ entry = "delete_script"
    /\ Len(responses) = 2
    /\ responses[2].failed
    /\ issues_with_attachments # <<>>

\* C4: when every attempt of a list request has failed, the caller of
\* get_issues receives an error outcome, not a list: a failed fetch is not
\* the empty list that means no more data.
C4_FetchFailureIsAnError ==
    (gi_result # "none" /\ mr_result = "raised") => gi_result = "raised"


\* The first list request got a full page and the second a short one.
FullThenShortPage ==
    /\ config.limit >= 1
    /\ Len(responses) >= 2
    /\ ~responses[1].failed
    /\ responses[1].size = config.limit
    /\ ~responses[2].failed
    /\ responses[2].size < config.limit

\* C22: when a page of limit tickets was followed by a page of fewer, the
\* while loop makes no third list request: it processes the second page and
\* is left, and a function that returns has handled the tickets with
\* attachments of both pages (the delete run returns them all, the download
\* run has counted their attachments).
C22_TwoFetchesThenStop ==
    FullThenShortPage =>
        /\ Len(requests) = 2
        /\ pc # "while"
        /\ pc \in {"loop_exit", "done"} /\ ~raised => stop \in {"last_page", "no_data"}
        /\ pc = "done" /\ ~raised =>
              /\ entry = "delete_script" => issues_with_attachments = seen
              /\ entry = "download_script" => total_attachments = SumAttachments(seen)

\* A download run with limit 2 that got two tickets, then one, and returned
\* after the second page.
C22_Witness ==
    /\ entry = "download_script"
    /\ pc = "done"
    /\ ~raised
    /\ config.limit = 2
    /\ config.offset_end = 0
    /\ Len(requests) = 2
    /\ responses[1].size = 2
    /\ responses[2].size = 1
    /\ stop = "last_page"
    /\ total_attachments = SumAttachments(seen)
    /\ total_attachments > 0


\* The tickets of the pages received so far, in the order received.
Received == PageFrom(1, SumSizes(responses))

NonEmpty(t) == t.attachment_count > 0

\* s is the beginning of t.
IsPrefix(s, t) == Len(s) <= Len(t) /\ s = SubSeq(t, 1, Len(s))

\* C27: the list of the delete run holds tickets with at least one
\* attachment only, each with the attachment count of that ticket; while the
\* loop runs it is a beginning of the list of such tickets among those
\* received, in their order, and what the function returns is that whole list.
C27_ReturnedList ==
    entry = "delete_script" =>
        /\ \A k \in 1..Len(issues_with_attachments) :
              /\ issues_with_attachments[k].attachment_count > 0
              /\ issues_with_attachments[k].attachment_count =
                     AttachmentsOf(issues_with_attachments[k].id)
        /\ IsPrefix(issues_with_attachments, SelectSeq(Received, NonEmpty))
        /\ pc \in {"loop_exit", "done"} =>
              issues_with_attachments = SelectSeq(Received, NonEmpty)

\* A delete run that received the tickets 1 to 4 on two pages and returned
\* 1, 2 and 4: ticket 3 has no attachment.
C27_Witness ==
    /\ entry = "delete_script"
    /\ pc = "done"
    /\ Len(responses) = 2
    /\ Len(Received) = 4
    /\ issues_with_attachments = <<Ticket(1, 1), Ticket(2, 2), Ticket(4, 1)>>


\* ====================================================== claims: retry loops
IsAttempt(e) == e.kind = "attempt"

IsSleep(e) == e.kind = "sleep"

\* The attempts of the running retried operation, in order.
Attempts == SelectSeq(trace, IsAttempt)

ApiCall == entry \in {"get_issues", "download"}

\* The retry count and interval the running retry loop is configured with.
ConfiguredRetryCount ==
    IF entry = "delete_attachments_from_issue" THEN browser.retry_count ELSE env.retry_count

ConfiguredRetryInterval ==
    IF entry = "delete_attachments_from_issue" THEN browser.retry_interval
    ELSE env.retry_interval

\* The retried operation has ended: _make_request returned or raised, download
\* returned, the retry loop of one attachment's delete was left.
OperationEnded ==
    \/ entry = "get_issues" /\ mr_result # "none"
    \/ entry = "download" /\ dl_result # "none"
    \/ entry = "delete_attachments_from_issue" /\ pc \in {"delete_next", "done"} /\ trace # <<>>

\* C5: a list request or a download returns success at its first successful
\* attempt and makes no attempt after it; it reports failure only when all
\* retry_count + 1 attempts were made and failed, and the failure reported is
\* the one of the last attempt.
C5_SuccessAtOnceFailureAfterAll ==
    ApiCall =>
        /\ \A k \in 1..Len(trace) :
              trace[k].outcome = "ok" =>
                  /\ k = Len(trace)
                  /\ mr_result = "returned" \/ dl_result = "true"
        /\ (mr_result = "raised" \/ (dl_result \in {"false", "raised"} /\ trace # <<>>)) =>
              /\ Len(Attempts) = ConfiguredRetryCount + 1
              /\ \A k \in 1..Len(Attempts) : Attempts[k].outcome # "ok"
              /\ mr_result = "raised" => mr_error = Attempts[Len(Attempts)]

\* C6: the attempts of a list request or of a download are numbered 0, 1, ...
\* in this order, attempt i is given the timeout base_timeout +
\* i*timeout_increment, and there are at most retry_count + 1 of them.
C6_AttemptTimeouts ==
    ApiCall =>
        /\ Len(Attempts) <= ConfiguredRetryCount + 1
        /\ \A k \in 1..Len(Attempts) :
              /\ Attempts[k].attempt = k - 1
              /\ Attempts[k].value = env.base_timeout + (k - 1) * env.timeout_increment

\* A download that failed three times, with timeouts 1, 3 and 5.
C6_Witness ==
    /\ entry = "download"
    /\ env.base_timeout = 1
    /\ env.timeout_increment = 2
    /\ Len(Attempts) = 3
    /\ Attempts[3].value = 5
    /\ dl_result = "false"

\* C7: a failed attempt of a list request or of a download, of whatever kind,
\* is followed by the pause and the next attempt as long as attempts remain.
C7_EveryFailureIsRetried ==
    ApiCall =>
        \A k \in 1..Len(trace) :
            (IsAttempt(trace[k]) /\ trace[k].outcome # "ok"
                /\ trace[k].attempt < ConfiguredRetryCount) =>
                IF k = Len(trace)
                THEN pc \in {"_make_request_sleep", "download_sleep"}
                ELSE IsSleep(trace[k + 1])

\* C8: in each of the three retry loops, one pause of the configured retry
\* interval lies between a failed attempt and the next attempt, and there is
\* no pause before the first attempt, after a successful attempt or after the
\* last failed attempt.
C8_OnePauseBetweenAttempts ==
    /\ trace # <<>> => IsAttempt(trace[1])
    /\ \A k \in 1..Len(trace) :
          /\ IsSleep(trace[k]) =>
                /\ k > 1
                /\ IsAttempt(trace[k - 1])
                /\ trace[k - 1].outcome # "ok"
                /\ trace[k].value = ConfiguredRetryInterval
                /\ k = Len(trace) =>
                      /\ pc \in {"_make_request", "download_attempt", "delete_attempt"}
                      /\ attempt <= ConfiguredRetryCount
          /\ (IsAttempt(trace[k]) /\ k > 1) => IsSleep(trace[k - 1])
          /\ trace[k].outcome = "ok" => k = Len(trace)
    /\ (OperationEnded /\ trace # <<>>) => IsAttempt(trace[Len(trace)])

\* A list request that failed three times: attempt, pause, attempt, pause,
\* attempt, and no pause after the last one.
C8_Witness ==
    /\ entry = "get_issues"
    /\ pc = "done"
    /\ mr_result = "raised"
    /\ Len(trace) = 5
    /\ IsSleep(trace[4])

\* C9: RedmineAttachment.download raises for no failure of the request or of
\* the write; it returns True exactly when an attempt fetched and wrote the
\* whole content, and False otherwise (no content URL, or every attempt failed).
C9_DownloadReturnsABoolean ==
    entry = "download" =>
        /\ dl_result # "raised"
        /\ pc = "done" => dl_result \in {"true", "false"}
        /\ dl_result = "true" <=> (\E k \in 1..Len(trace) : trace[k].outcome = "ok")
        /\ dl_result = "true" <=> file = "complete"

\* A download whose attempts all failed, one of them while writing the file.
C9_Witness ==
    /\ entry = "download"
    /\ pc = "done"
    /\ dl_result = "false"
    /\ file = "partial"
    /\ Len(Attempts) = 3

\* C10: download(directory, filename, retry_count, retry_interval) makes at
\* most retry_count + 1 attempts and pauses retry_interval between them, for
\* the retry_count and retry_interval its caller passed.
C10_DownloadUsesItsArguments ==
    entry = "download" =>
        /\ Len(Attempts) <= call.retry_count + 1
        /\ \A k \in 1..Len(trace) : IsSleep(trace[k]) => trace[k].value = call.retry_interval


\* ================================================ claims: browser deletion
\* failed_attachments holds a record of attachment number idx of the ticket.
HasRecord(idx) ==
    \E k \in 1..Len(failed_attachments) : failed_attachments[k].attachment_index = idx

\* Every attempt made so far for the attachment at hand failed.
AllAttemptsFailed == \A k \in 1..Len(Attempts) : Attempts[k].outcome # "ok"

\* C12: for each attachment of the ticket page the delete loop makes at most
\* retry_count + 1 click attempts and none after a successful one; when it
\* is done with the attachment there is a record of it in failed_attachments
\* exactly when retry_count + 1 attempts were made and all failed; and the
\* loop is left only after the last attachment, whatever became of the
\* earlier ones.
C12_DeleteRetryLoop ==
    entry = "delete_attachments_from_issue" /\ attachment_count > 0 =>
        /\ Len(Attempts) <= browser.retry_count + 1
        /\ \A k \in 1..(Len(Attempts) - 1) : Attempts[k].outcome # "ok"
        /\ pc \in {"delete_attempt", "delete_sleep"} => ~HasRecord(i + 1)
        /\ pc = "delete_next" =>
               (HasRecord(i + 1) <=>
                    Len(Attempts) = browser.retry_count + 1 /\ AllAttemptsFailed)
        /\ pc = "done" => i = attachment_count
        /\ Len(failed_attachments) <= i + 1

\* The first of two attachments used up three attempts and was recorded, and
\* the loop went on to the second, which was deleted on a retry.
C12_Witness ==
    /\ entry = "delete_attachments_from_issue"
    /\ browser.retry_count = 2
    /\ attachment_count = 2
    /\ pc = "delete_next"
    /\ i = 1
    /\ Len(failed_attachments) = 1
    /\ failed_attachments[1].attachment_index = 1
    /\ Len(Attempts) = 2
    /\ Attempts[2].outcome = "ok"

\* C14: delete_attachments_from_issue returns True only if the call recorded
\* no attachment in failed_attachments.
C14_SuccessMeansNoRecord ==
    entry = "delete_attachments_from_issue" =>
        (del_result = "true" => failed_attachments = <<>>)

\* A call that went through the loop and recorded one of two attachments.
C14_Witness ==
    /\ entry = "delete_attachments_from_issue"
    /\ pc = "done"
    /\ attachment_count = 2
    /\ Len(failed_attachments) = 1
    /\ del_result = "false"

\* The positions of a run inside delete_attachments_from_issues.
BatchPcs == {"delete_attachments_from_issues", "delete_attachments_from_issue",
             "delete_attempt", "delete_sleep", "delete_next", "delete_result"}

\* The log holds a [MANUAL_DELETE_REQUIRED] line of the ticket.
HasManualRecord(id) == \E k \in 1..Len(manual_log) : manual_log[k].issue_id = id

\* C11: delete_attachments_from_issues returns, with the success flag of each
\* ticket (False exactly for the tickets one of whose attachments used up its
\* attempts), one record of ticket id, attachment index and total for every
\* attachment that used up its attempts, over all the tickets.
C11_BatchOutcome ==
    pc = "delete_returned" =>
        /\ \A r \in results : ~r.success <=> HasManualRecord(r.issue_id)
        /\ all_failed_attachments = manual_log

\* C13: a ticket with a recorded attachment is a failure whose loop still
\* went through all its attachments, and the batch returns only after every
\* id it was given was processed in turn and has a result.
C13_BatchGoesOn ==
    /\ pc = "delete_result" /\ failed_attachments # <<>> =>
           del_result = "false" /\ i = attachment_count
    /\ pc \in BatchPcs \cup {"delete_returned"} =>
           /\ \A k \in 1..Len(issue_ids) :
                  (k < batch_i \/ pc = "delete_returned") =>
                      \E r \in results : r.issue_id = issue_ids[k]
           /\ self_page = "ready" =>
                  visits = SubSeq(issue_ids, 1,
                                  IF pc = "delete_attachments_from_issue"
                                  THEN batch_i - 1 ELSE batch_i)
    /\ pc = "delete_returned" => batch_i = Len(issue_ids)

\* A batch of two tickets returned: the first attachment of the first ticket
\* was recorded, its second attachment was still handled, and the second
\* ticket was processed and succeeded.
C13_Witness ==
    /\ pc = "delete_returned"
    /\ Len(issue_ids) = 2
    /\ issue_ids[1] # issue_ids[2]
    /\ Len(manual_log) = 1
    /\ manual_log[1] = [issue_id |-> issue_ids[1], attachment_index |-> 1,
                        total_attachments |-> 2]
    /\ [issue_id |-> issue_ids[1], attachment_index |-> 2, confirmed |-> TRUE] \in deletions
    /\ [issue_id |-> issue_ids[1], success |-> FALSE] \in results
    /\ [issue_id |-> issue_ids[2], success |-> TRUE] \in results

\* C15: after login returned False no ticket page is opened and no delete
\* control is clicked: the run goes to its end.
C15_NoDeleteAfterFailedLogin ==
    login_result = "false" =>
        /\ visits = <<>>
        /\ deletions = {}
        /\ pc \in {"login_returned", "close", "exit"}

\* A confirmed run of the script that ended after its login failed on a
\* browser that was set up.
C15_Witness ==
    /\ entry = "delete_main"
    /\ answer = "yes"
    /\ self_page = "closed"
    /\ login_result = "false"
    /\ pc = "exit"

\* C16: with auth_method basic login returns True, and when the first ticket
\* page is about to be opened the browser page exists and sends the
\* Authorization header.
C16_BasicSessionIsSetUp ==
    browser.auth_method = "basic" =>
        /\ login_result # "false"
        /\ pc \in BatchPcs => self_page = "ready" /\ header

\* C17: in a run of the script the browser is set up, login is called, a
\* ticket page is opened or a delete control is clicked only after the
\* confirmation was answered yes or skipped.
C17_NothingWithoutConfirmation ==
    entry = "delete_main" /\ answer \notin {"yes", "skipped"} =>
        /\ self_page = "none"
        /\ login_result = "none"
        /\ visits = <<>>
        /\ deletions = {}
        /\ pc \notin BatchPcs \cup {"login", "login_returned", "delete_returned", "close"}

\* A run that found tickets and whose prompt was interrupted.
C17_Witness ==
    /\ entry = "delete_main"
    /\ issues_with_attachments # <<>>
    /\ answer = "interrupt"
    /\ pc = "exit"
    /\ self_page = "none"

\* C18: when the process has ended, every deletion that was attempted was
\* confirmed by its retry loop or has a [MANUAL_DELETE_REQUIRED] line in the log.
C18_ExitLeavesNothingUnaccounted ==
    pc = "exit" =>
        \A d \in deletions :
            \/ d.confirmed
            \/ \E k \in 1..Len(manual_log) :
                   /\ manual_log[k].issue_id = d.issue_id
                   /\ manual_log[k].attachment_index = d.attachment_index


\* C25: a call of delete_attachments_from_issue whose page has no attachments
\* section, or a section without a delete control, returns True; it has
\* clicked nothing and recorded nothing for manual deletion.
C25_NothingToDelete ==
    (/\ entry = "delete_attachments_from_issue"
     /\ pc = "done"
     /\ attachments_section \in {"absent", "present"}
     /\ attachment_count = 0) =>
        /\ del_result = "true"
        /\ trace = <<>>
        /\ deletions = {}
        /\ failed_attachments = <<>>
        /\ manual_log = <<>>

\* A call that found the section and no delete control in it.
C25_Witness ==
    /\ entry = "delete_attachments_from_issue"
    /\ pc = "done"
    /\ visits = <<1>>
    /\ attachments_section = "present"
    /\ attachment_count = 0
    /\ del_result = "true"

\* ================================================ claims: the batch's report
\* C31: a ticket whose result in the dict of the batch is False has a
\* [MANUAL_DELETE_REQUIRED] record with its id, whatever made the call for
\* it return False.
C31_FailedTicketHasRecord ==
    \A r \in results : ~r.success => HasManualRecord(r.issue_id)

\* Lines 361-362: success_count is the number of items of results with a true
\* value, failed_count is what is left of len(issue_ids).
success_count == Cardinality({r \in results : r.success})

failed_count == Len(issue_ids) - success_count

IsTrue(b) == b

IsFalse(b) == ~b

\* C32: when the batch has gone through the list, the counts it logs are the
\* numbers of calls that returned True and that returned False, and they add
\* up to the length of the list.
C32_Counts ==
    pc = "delete_returned" =>
        /\ success_count = Len(SelectSeq(returned, IsTrue))
        /\ failed_count = Len(SelectSeq(returned, IsFalse))
        /\ success_count + failed_count = Len(issue_ids)

\* ========================================== claims: the first delete control
\* The attempts of the running retry loop whose click took effect.
TookEffect(e) == e.outcome \in {"ok", "wait_error"}

\* C29: the clicks of a call that take effect are at most as many as the
\* delete controls it found, and the retry loop of one attachment removes at
\* most one attachment.
C29_OneRemovalPerIteration ==
    (entry = "delete_attachments_from_issue" /\ attachment_count > 0) =>
        /\ remaining >= 0
        /\ attachment_count - remaining <= attachment_count
        /\ Len(SelectSeq(Attempts, TookEffect)) <= 1

\* C30: when the loop of a call has ended, every one of the attachments the
\* page had was the target of a click, and every click made for an attachment
\* that has a record in failed_attachments was a click on the delete control
\* of that attachment.
C30_EveryAttachmentIsTargeted ==
    (entry = "delete_attachments_from_issue" /\ pc = "done" /\ attachment_count > 0) =>
        /\ \A a \in 1..attachment_count : \E c \in clicked : c.target = a
        /\ \A k \in 1..Len(failed_attachments) :
              \A c \in clicked :
                  c.iteration = failed_attachments[k].attachment_index =>
                      c.target = failed_attachments[k].attachment_index

\* ================================================== claims: order and pauses
IsCall(e) == e.kind = "call"

IsReturn(e) == e.kind = "return"

\* The calls of delete_attachments_from_issue the batch made, and those that
\* returned, in order.
Calls == SelectSeq(steps, IsCall)

Returns == SelectSeq(steps, IsReturn)

\* C23: the batch calls delete_attachments_from_issue for the ids in the
\* order of the list, one call for each position, none left out; a call is
\* made only when every earlier call has returned, and what is done to the
\* attachments in between belongs to the ticket of the call that is open.
C23_InputOrder ==
    pc \in BatchPcs \cup {"delete_returned"} =>
        /\ Len(Calls) = batch_i
        /\ \A k \in 1..Len(Calls) : Calls[k].issue_id = issue_ids[k]
        /\ \A k \in 1..Len(Returns) : Returns[k].issue_id = issue_ids[k]
        /\ \A p \in 1..Len(steps) :
              LET before == SubSeq(steps, 1, p - 1)
                  open == Len(SelectSeq(before, IsCall)) - Len(SelectSeq(before, IsReturn))
              IN  /\ IsCall(steps[p]) => open = 0
                  /\ IsReturn(steps[p]) => open = 1
                  /\ steps[p].kind = "attachment" =>
                        /\ open = 1
                        /\ steps[p].issue_id = issue_ids[Len(SelectSeq(before, IsCall))]
        /\ pc = "delete_returned" => Len(Returns) = Len(issue_ids)
        /\ pc \in {"delete_attachments_from_issues", "delete_returned"} =>
              Len(Returns) = Len(Calls)

\* A batch for the ids 2, 1 returned: ticket 2 was processed, with its two
\* attachments, and had returned before ticket 1 was called.
C23_Witness ==
    /\ pc = "delete_returned"
    /\ issue_ids = <<2, 1>>
    /\ Len(Returns) = 2
    /\ steps[1] = Step("call", 2, 0)
    /\ \E p \in 1..Len(steps) :
          /\ steps[p] = Step("return", 2, 0)
          /\ \E q \in 1..(p - 1) : steps[q] = Step("attachment", 2, 2)
          /\ \E q \in (p + 1)..Len(steps) : steps[q] = Step("call", 1, 0)

\* C24: with a positive delete interval, the end of an attachment is followed
\* by one sleep of the interval and then the next attachment of the ticket,
\* or by the return of the call; the return for a ticket is followed by one
\* sleep of the interval and then the call for the next ticket, or by the
\* return of the batch; whatever became of the attachment or the ticket.
C24_OnePauseBetweenItems ==
    browser.delete_interval > 0 =>
        /\ \A p \in 1..Len(steps) :
              /\ steps[p].kind = "pause" =>
                    /\ p > 1
                    /\ steps[p].n = browser.delete_interval
                    /\ steps[p - 1].kind \in {"attachment", "return"}
                    /\ p < Len(steps) =>
                          steps[p + 1].kind =
                              IF steps[p - 1].kind = "attachment" THEN "attachment" ELSE "call"
              /\ (steps[p].kind = "attachment" /\ p < Len(steps)) =>
                    steps[p + 1].kind \in {"pause", "return"}
              /\ (IsReturn(steps[p]) /\ p < Len(steps)) => steps[p + 1].kind = "pause"
        /\ (pc \in {"delete_result", "delete_returned"} /\ steps # <<>>) =>
              steps[Len(steps)].kind # "pause"
        /\ (pc \in {"delete_result", "done"} /\ attachment_count > 0) =>
              steps[Len(steps)] = Step("attachment", issue_id, attachment_count)

\* A batch of two tickets returned: the first ticket failed with a record of
\* its first attachment, one sleep lay between its two attachments and one
\* between the two tickets, and none came after the last attachment or ticket.
C24_Witness ==
    /\ pc = "delete_returned"
    /\ Len(issue_ids) = 2
    /\ [issue_id |-> issue_ids[1], success |-> FALSE] \in results
    /\ Len(steps) >= 8
    /\ SubSeq(steps, 1, 7) =
           <<Step("call", issue_ids[1], 0), Step("attachment", issue_ids[1], 1),
             Step("pause", issue_ids[1], 1), Step("attachment", issue_ids[1], 2),
             Step("return", issue_ids[1], 0), Step("pause", issue_ids[1], 1),
             Step("call", issue_ids[2], 0)>>
    /\ IsReturn(steps[Len(steps)])

EscapeStarts(s) ==
    {k \in 1..(Len(s) - 2) : s[k] = "%" /\ IsHex(s[k + 1]) /\ IsHex(s[k + 2])}

\* The position in the decoded name of what stands at position p of the raw one.
DecodedPosition(s, p) == p - 2 * Cardinality({k \in EscapeStarts(s) : k < p})

\* Nothing but spaces and dots is left of the decoded name after the replacement.
NothingRemains ==
    \A k \in 1..Len(decoded_filename) : decoded_filename[k] \in {" ", "."}

DownloadPcs == {"download_attachments", "download", "download_attempt",
                "download_sleep", "downloaded"}

\* The name with _c put between its stem and its extension.
Numbered(name, c) ==
    LET stem == splitext(name)[1]
        ext == splitext(name)[2]
    IN  IF c = 0 THEN name ELSE stem \o <<"_">> \o Digits(c) \o ext

\* C19 as it stands: while the attachments of a ticket are downloaded into a
\* directory, every file an earlier run left there is still there with the
\* content it had.
C19_RerunKeepsEarlierFiles ==
    pc \in DownloadPcs => \A f \in earlier : f \in dir

\* C19, amended: a call of RedmineIssue.download_attachments leaves every file
\* the directory held as it was and writes to a path that was not there, a
\* numbered one when the name of the attachment was taken; the script
\* downloads into a directory it has emptied, where no earlier file is left.
C19_CallKeepsEarlierFiles ==
    /\ entry = "download_attachments" =>
           /\ \A f \in earlier : f \in dir
           /\ download_path # <<>> =>
                  /\ download_path \notin Names(earlier)
                  /\ safe_filename \in Names(earlier) =>
                         \E c \in 1..(Cardinality(dir) + 1) :
                             download_path = Numbered(safe_filename, c)
    /\ entry = "download_main" /\ pc \in DownloadPcs =>
           \A f \in dir : f.content # "old"

\* A call for a directory that held a.t: the download of an attachment a.t was
\* written to a_1.t next to it.
C19_Witness ==
    /\ entry = "download_attachments"
    /\ pc = "done"
    /\ earlier = {[name |-> <<"a", ".", "t">>, content |-> "old"]}
    /\ dir = earlier \cup {[name |-> <<"a", "_", "1", ".", "t">>, content |-> "complete"]}

\* C20: the path chosen for a sanitized name is the name itself or the name
\* with _1, _2, ... before its extension; every path before it in that order
\* exists in the directory, the chosen one does not, and the number is at most
\* the number of files of the directory.
C20_FirstFreePath ==
    pc = "download" /\ safe_filename # <<>> =>
        /\ download_path \notin Names(dir)
        /\ \E c \in 0..Cardinality(dir) :
               /\ download_path = Numbered(safe_filename, c)
               /\ \A b \in 0..(c - 1) : Numbered(safe_filename, b) \in Names(dir)

\* The directory holds a.t and a_1.t and the path chosen for a.t is a_2.t.
C20_Witness ==
    /\ pc = "download"
    /\ safe_filename = <<"a", ".", "t">>
    /\ {<<"a", ".", "t">>, <<"a", "_", "1", ".", "t">>} \subseteq Names(dir)
    /\ download_path = <<"a", "_", "2", ".", "t">>

\* ================================================ claims: failed downloads
\* The attachments 1..a of a ticket, as pairs of ticket id and number.
LinesOf(t, a) == [k \in 1..a |-> <<t.id, k>>]

\* All attachments of the tickets of a list, in order.
RECURSIVE AllLines(_)
AllLines(ts) ==
    IF ts = <<>> THEN <<>>
    ELSE LinesOf(Head(ts), Head(ts).attachment_count) \o AllLines(Tail(ts))

\* The attachments the log has a line of, in the order of the lines.
LogKeys ==
    [k \in 1..Len(download_log) |-> <<download_log[k].issue_id, download_log[k].attachment>>]

\* The log has one line for every attachment before the one at hand: those
\* of the tickets of the page before this ticket, and those of this ticket.
EveryEarlierAttachmentLogged ==
    /\ (entry \in {"download_main", "download_attachments"} /\ pc \in DownloadPcs) =>
           LogKeys = AllLines(SubSeq(issues, 1, ticket - 1))
                         \o LinesOf(issues[ticket], att - 1)
    /\ (entry = "download_main" /\ pc = "ticket") =>
           LogKeys = AllLines(SubSeq(issues, 1, ticket - 1))
    /\ (entry = "download_attachments" /\ pc = "done") => LogKeys = AllLines(issues)

\* C28: a download that returned False is logged as failed, an exception
\* while the path is prepared is logged as an error, and neither ends the
\* loops: the log has a line for every attachment of the ticket, and of the
\* tickets of the page, up to the one at hand, whatever became of the earlier
\* ones.
C28_FailedDownloadGoesOn ==
    /\ []EveryEarlierAttachmentLogged
    /\ [][(pc = "downloaded" /\ entry # "download_script") =>
              /\ pc' = "download_attachments"
              /\ att' = att + 1
              /\ Len(download_log') = Len(download_log) + 1
              /\ download_log'[Len(download_log')].result =
                     IF dl_result = "true" THEN "downloaded" ELSE "failed"]_vars

\* A run of the script on a page of two tickets: the one attachment of the
\* first ticket failed, the first attachment of the second ticket raised
\* while its path was prepared, and its second attachment was downloaded.
C28_Witness ==
    /\ entry = "download_main"
    /\ pc = "download_attachments"
    /\ Len(issues) = 2
    /\ ticket = 2
    /\ att = 3
    /\ download_log = <<[issue_id |-> 1, attachment |-> 1, result |-> "failed"],
                        [issue_id |-> 2, attachment |-> 1, result |-> "error"],
                        [issue_id |-> 2, attachment |-> 2, result |-> "downloaded"]>>

\* ================================================ claims: the end of the range
\* The number of tickets of the pages before the k-th.
Before(k) == SumSizes(SubSeq(responses, 1, k - 1))

\* The page a received ticket came on: ids count up in the order received.
PageOf(id) == CHOOSE k \in 1..Len(responses) : Before(k) < id /\ id <= Before(k) + responses[k].size

\* The position of a received ticket in the listing, counted from 0 as the
\* offsets are: the offset of the request of its page plus its place on the
\* page (current_offset + i - 1 of the script's log line).
Position(id) == requests[PageOf(id)].offset + (id - Before(PageOf(id))) - 1

\* No page is longer than the limit asked for.
PagesWithinLimit == \A k \in 1..Len(responses) : responses[k].size <= config.limit

\* C33: with an end offset, and a server that answers with at most limit
\* tickets, every ticket the delete run has put on its list and every ticket
\* the download run is downloading the attachments of has a position below
\* offset_end.
C33_NothingPastOffsetEnd ==
    (config.offset_end > 0 /\ PagesWithinLimit) =>
        /\ entry = "delete_script" =>
              \A k \in 1..Len(issues_with_attachments) :
                  Position(issues_with_attachments[k].id) < config.offset_end
        /\ (entry = "download_script" /\ pc \in DownloadPcs) =>
              Position(issues[ticket].id) < config.offset_end

\* ================================================== claims: the closing count
IsDownloaded(line) == line.result = "downloaded"

\* C34: when the download run has ended, the count of downloaded attachments
\* it logs is the number of attachments whose download returned True, and
\* the total it logs is the number of attachments of the tickets it handled.
C34_ClosingCount ==
    (entry = "download_main" /\ pc = "done" /\ ~raised) =>
        /\ downloaded_attachments = Len(SelectSeq(download_log, IsDownloaded))
        /\ total_attachments = SumAttachments(seen)

\* ============================================ claims: the list and the browser
\* The browser client has acted: the browser was set up, login has returned,
\* a ticket page was opened or a delete control was clicked.
BrowserStarted ==
    self_page # "none" \/ login_result # "none" \/ visits # <<>> \/ deletions # {}

\* The positions of main from the call of login on.
SessionPcs == {"login", "login_returned", "delete_returned", "close"} \cup BatchPcs

\* When the browser client is in use the while loop has been left and the
\* ids it works on are those of the returned list.
ListIsFixed ==
    (entry = "delete_main" /\ (BrowserStarted \/ pc \in SessionPcs)) =>
        /\ stop # "none"
        /\ issue_ids # <<>>
        /\ issue_ids = IdsOf(issues_with_attachments)
        /\ Len(responses) = Len(requests)

\* C35: in a run of the delete script every list request comes before the
\* first action of the browser client: once the client is called or has
\* acted, the loop over the pages is over, the ids are those of the list it
\* returned, and no step makes a request or changes the list or the ids.
C35_ListBeforeBrowser ==
    /\ []ListIsFixed
    /\ [][(entry = "delete_main" /\ (BrowserStarted' \/ pc \in SessionPcs)) =>
              /\ requests' = requests
              /\ issues_with_attachments' = issues_with_attachments
              /\ issue_ids' = issue_ids]_vars

\* A confirmed run of the script that ended after one list request and the
\* deletion of an attachment of each of the two tickets of its list.
C35_Witness ==
    /\ entry = "delete_main"
    /\ pc = "exit"
    /\ exit_cause = "return"
    /\ Len(requests) = 1
    /\ Len(issue_ids) = 2
    /\ visits = issue_ids
    /\ \A k \in 1..2 : \E d \in deletions : d.issue_id = issue_ids[k]

====
